---- MODULE Spec2Model ----
(***************************************************************************)
(* A model of the generic vector of src/Vec/Vec.c, built with NDEBUG (the  *)
(* tests call the functions with invalid arguments and expect the error    *)
(* returns, so the assert()s are compiled out).                            *)
(*                                                                         *)
(* An element is element_size bytes wide; every operation of Vec.c copies, *)
(* compares, swaps or clears whole elements at offsets that are multiples  *)
(* of element_size, so the data block is a sequence of element slots.  A   *)
(* slot holds a value of Values (0 is the element whose bytes are all      *)
(* zero) or Uninit for bytes malloc()/realloc() returned and nobody wrote. *)
(* Indices into the block are byte offsets ("internal" indices) exactly as *)
(* in the code; Slot() turns one into a position of the sequence.          *)
(***************************************************************************)
EXTENDS Integers, Sequences, FiniteSets, TLC

\* ---------------------------------------------------------------- platform
\* sizeof(void*) and SIZE_MAX of a 16-bit target
PtrSize == 2
SIZE_MAX == 65535

\* ------------------------------------------------------------------ bounds
MaxValue == 1
MaxCount == 3
MaxLeastCapacity == 2

Values == 0..MaxValue
\* 32768 * 2 does not fit the size type
ElementSizes == {0, 6, 16, 32768}
LeastCapacities == 0..MaxLeastCapacity

\* an element slot nobody wrote yet
Uninit == -1

\* ---------------------------------------------------------------- pointers
NULL == [kind |-> "null"]
\* a pointer to a caller's object holding val, outside the vector
Ext(val) == [kind |-> "ext", val |-> val]
\* a pointer into the vector's data block, data + off
Inner(off) == [kind |-> "inner", off |-> off]

VARIABLES v, item_for_memcmp_predicate, last, appended

vars == <<v, item_for_memcmp_predicate, last, appended>>

\* ------------------------------------------------------------- arithmetic
Mod(n) == n % (SIZE_MAX + 1)

RECURSIVE FloorLog2(_)
FloorLog2(n) == IF n <= 1 THEN 0 ELSE 1 + FloorLog2(n \div 2)

RECURSIVE Xor(_, _)
Xor(a, b) ==
    IF a = 0 THEN b
    ELSE IF b = 0 THEN a
    ELSE (((a % 2) + (b % 2)) % 2) + 2 * Xor(a \div 2, b \div 2)

Fill(n, x) == [k \in 1..n |-> x]

\* the loop of word_align_size: doubles aligned_bytes `left` times, 0 on overflow
RECURSIVE AlignLoop(_, _)
AlignLoop(aligned_bytes, left) ==
    IF left = 0 THEN aligned_bytes
    ELSE IF aligned_bytes > (SIZE_MAX \div 2) THEN 0
    ELSE AlignLoop(aligned_bytes * 2, left - 1)

\* a variant that rounds down to a power of two
word_align_size_Down(requested_bytes) ==
    LET alignment == PtrSize * 8 IN
    IF requested_bytes % alignment = 0
    THEN requested_bytes
    ELSE AlignLoop(1, FloorLog2(requested_bytes))

word_align_size(requested_bytes) ==
    LET alignment == PtrSize * 8 IN
    IF requested_bytes % alignment = 0
    THEN requested_bytes
    ELSE LET next_aligned_exponent == FloorLog2(requested_bytes) + 1
             aligned_bytes == AlignLoop(1, next_aligned_exponent)
         IN  IF aligned_bytes = 0 THEN 0
             ELSE IF aligned_bytes < alignment THEN alignment
             ELSE aligned_bytes

\* ------------------------------------------------------------ construction
\* malloc_v, malloc_data: whether the two malloc() calls succeed

\* a variant that checks the arguments after it has allocated the vector
Vec_new_heap_ChecksLate(least_capacity, element_size, malloc_v, malloc_data) ==
    IF ~malloc_v THEN [mallocs |-> 1, frees |-> 0]
    ELSE IF least_capacity = 0 \/ element_size = 0
    THEN [mallocs |-> 1, frees |-> 1]
    ELSE IF least_capacity > (SIZE_MAX \div element_size)
    THEN [mallocs |-> 1, frees |-> 1]
    ELSE IF ~malloc_data THEN [mallocs |-> 2, frees |-> 1]
    ELSE [mallocs |-> 2, frees |-> 0]

\* the calls Vec_new() makes to the allocator on the way to its result
Vec_new_heap(least_capacity, element_size, malloc_v, malloc_data) ==
    IF least_capacity = 0 \/ element_size = 0 THEN [mallocs |-> 0, frees |-> 0]
    ELSE IF least_capacity > (SIZE_MAX \div element_size)
    THEN [mallocs |-> 0, frees |-> 0]
    ELSE IF ~malloc_v THEN [mallocs |-> 1, frees |-> 0]
    ELSE IF word_align_size(least_capacity * element_size) = 0
    THEN [mallocs |-> 1, frees |-> 1]
    ELSE IF ~malloc_data THEN [mallocs |-> 2, frees |-> 1]
    ELSE [mallocs |-> 2, frees |-> 0]

Vec_new(least_capacity, element_size, malloc_v, malloc_data) ==
    IF least_capacity = 0 \/ element_size = 0 THEN NULL
    ELSE IF least_capacity > (SIZE_MAX \div element_size) THEN NULL
    ELSE IF ~malloc_v THEN NULL
    ELSE LET aligned_bytes == word_align_size(least_capacity * element_size) IN
         IF aligned_bytes = 0 THEN NULL
         ELSE IF ~malloc_data THEN NULL
         ELSE [data           |-> Fill(aligned_bytes \div element_size, Uninit),
               element_size   |-> element_size,
               capacity       |-> aligned_bytes \div element_size,
               capacity_bytes |-> aligned_bytes,
               count          |-> 0,
               count_bytes    |-> 0,
               alloc_bytes    |-> aligned_bytes]

\* ---------------------------------------------------------------- equality
\* comparators: NULL, or a caller's three-way comparison of two values
Ascending == [kind |-> "asc"]
Descending == [kind |-> "desc"]

CallCmp(cmp, a, b) ==
    IF a = b THEN 0
    ELSE IF (cmp.kind = "asc") = (a < b) THEN -1 ELSE 1

\* a variant that compares the whole blocks
Vec_equal_WholeBlock(v_a, v_b, cmp) ==
    IF v_a = NULL \/ v_b = NULL THEN FALSE
    ELSE v_a.element_size = v_b.element_size /\ v_a.data = v_b.data

Vec_equal(v_a, v_b, cmp) ==
    IF v_a = NULL \/ v_b = NULL THEN FALSE
    ELSE IF v_a.count # v_b.count \/ v_a.element_size # v_b.element_size
    THEN FALSE
    ELSE IF v_a.count = 0 /\ v_b.count = 0
            /\ v_a.element_size = v_b.element_size
    THEN TRUE
    ELSE IF cmp # NULL
    THEN \A k \in 1..v_a.count : CallCmp(cmp, v_a.data[k], v_b.data[k]) = 0
    ELSE SubSeq(v_a.data, 1, v_a.count) = SubSeq(v_b.data, 1, v_a.count)

\* ------------------------------------------------------------ index mapping
\* a variant that forgets to scale by the element size
convert_index_Unscaled(V, index, to_external) ==
    IF V = NULL THEN 0 ELSE index

convert_index(V, index, to_external) ==
    IF V = NULL THEN 0
    ELSE IF to_external THEN index \div V.element_size
    ELSE Mod(index * V.element_size)

to_internal_index(V, index) == convert_index(V, index, FALSE)

to_external_index(V, index) == convert_index(V, index, TRUE)

\* the position in V.data of the element that starts at byte offset i
Slot(V, i) == (i \div V.element_size) + 1

\* what a read through `item` yields while the block V.data is the one the
\* pointer was taken from
ReadItem(V, item) ==
    IF item.kind = "ext" THEN item.val ELSE V.data[Slot(V, item.off)]

\* ------------------------------------------------------------------ search
\* predicates: NULL, the built-in memcmp_predicate, or a caller's predicate
\* that holds of the values in `set`
MemcmpPredicate == [kind |-> "memcmp"]
InSet(S) == [kind |-> "in", set |-> S]

memcmp_predicate(V, i, glob) ==
    IF glob = NULL \/ V.element_size = 0 THEN FALSE
    ELSE ReadItem(V, glob) = V.data[Slot(V, i)]

CallPredicate(predicate, V, i, glob) ==
    IF predicate.kind = "memcmp" THEN memcmp_predicate(V, i, glob)
    ELSE V.data[Slot(V, i)] \in predicate.set

\* a variant that goes on after a match and yields the last one
RECURSIVE WhereLoop_Last(_, _, _, _)
WhereLoop_Last(V, predicate, glob, i) ==
    IF i < V.count_bytes
    THEN LET rest == WhereLoop_Last(V, predicate, glob, i + V.element_size) IN
         IF rest # V.count THEN rest
         ELSE IF CallPredicate(predicate, V, i, glob)
         THEN to_external_index(V, i)
         ELSE V.count
    ELSE V.count

RECURSIVE WhereLoop(_, _, _, _)
WhereLoop(V, predicate, glob, i) ==
    IF i < V.count_bytes
    THEN IF CallPredicate(predicate, V, i, glob)
         THEN to_external_index(V, i)
         ELSE WhereLoop(V, predicate, glob, i + V.element_size)
    ELSE V.count

Vec_where_if(V, predicate, glob) ==
    IF V = NULL THEN 0
    ELSE IF predicate = NULL \/ V.count = 0 THEN V.count
    ELSE WhereLoop(V, predicate, glob, 0)

\* a variant that compares with the target an earlier call left
Vec_where_StaleTarget(V, item, item_size, glob) ==
    IF V = NULL THEN [ret |-> 0, glob |-> glob]
    ELSE IF item = NULL \/ item_size # V.element_size \/ V.count = 0
    THEN [ret |-> V.count, glob |-> glob]
    ELSE [ret |-> Vec_where_if(V, MemcmpPredicate, glob), glob |-> glob]

\* ret: the index; glob: item_for_memcmp_predicate after the call
Vec_where(V, item, item_size, glob) ==
    IF V = NULL THEN [ret |-> 0, glob |-> glob]
    ELSE IF item = NULL \/ item_size # V.element_size \/ V.count = 0
    THEN [ret |-> V.count, glob |-> glob]
    ELSE [ret |-> Vec_where_if(V, MemcmpPredicate, item), glob |-> item]

\* a variant that never finds the item in the vector
Vec_has_Never(V, item, item_size, glob) == [ret |-> FALSE, glob |-> glob]

Vec_has(V, item, item_size, glob) ==
    IF V = NULL THEN [ret |-> FALSE, glob |-> glob]
    ELSE IF item = NULL \/ item_size # V.element_size \/ V.count = 0
    THEN [ret |-> FALSE, glob |-> glob]
    ELSE LET w == Vec_where(V, item, item_size, glob)
         IN  [ret |-> (V.count # w.ret), glob |-> w.glob]

Vec_has_if(V, predicate, glob) ==
    IF V = NULL \/ predicate = NULL THEN FALSE
    ELSE IF V.count = 0 THEN FALSE
    ELSE V.count # Vec_where_if(V, predicate, glob)

\* a variant that bounds the index by the capacity
Vec_get_WithinCapacity(V, external_index) ==
    IF V = NULL THEN NULL
    ELSE IF external_index >= V.capacity THEN NULL
    ELSE Inner(to_internal_index(V, external_index))

Vec_get(V, external_index) ==
    IF V = NULL THEN NULL
    ELSE IF external_index >= V.count THEN NULL
    ELSE Inner(to_internal_index(V, external_index))

\* ------------------------------------------------------------------ growth
\* ralloc: what realloc() does: "fail", "same" (block extended in place) or
\* "moved" (new block, old one released)
ReallocOutcomes == {"fail", "same", "moved"}

\* a variant that records the element capacity as the byte capacity
Vec_resize_BytesAsCount(V, new_capacity, ralloc) ==
    IF V = NULL \/ new_capacity = 0 \/ new_capacity <= V.capacity
    THEN [ok |-> FALSE, v |-> V, moved |-> FALSE]
    ELSE IF new_capacity > SIZE_MAX \div V.element_size \/ ralloc = "fail"
    THEN [ok |-> FALSE, v |-> V, moved |-> FALSE]
    ELSE [ok |-> TRUE,
          v  |-> [V EXCEPT
                   !.data = V.data \o Fill(new_capacity - V.capacity, Uninit),
                   !.capacity = new_capacity,
                   !.capacity_bytes = new_capacity,
                   !.alloc_bytes = Mod(PtrSize * V.element_size * new_capacity)],
          moved |-> (ralloc = "moved")]

\* a variant that forgets to record the new capacity
Vec_resize_KeepsCapacity(V, new_capacity, ralloc) ==
    IF V = NULL \/ new_capacity = 0 \/ new_capacity <= V.capacity
    THEN [ok |-> FALSE, v |-> V, moved |-> FALSE]
    ELSE IF new_capacity > SIZE_MAX \div V.element_size \/ ralloc = "fail"
    THEN [ok |-> FALSE, v |-> V, moved |-> FALSE]
    ELSE [ok |-> TRUE,
          v  |-> [V EXCEPT
                   !.data = V.data \o Fill(new_capacity - V.capacity, Uninit),
                   !.alloc_bytes = Mod(PtrSize * V.element_size * new_capacity)],
          moved |-> (ralloc = "moved")]

\* a variant that records the new capacity before it asks the allocator
Vec_resize_CommitsEarly(V, new_capacity, ralloc) ==
    IF V = NULL \/ new_capacity = 0 \/ new_capacity <= V.capacity
    THEN [ok |-> FALSE, v |-> V, moved |-> FALSE]
    ELSE IF new_capacity > SIZE_MAX \div V.element_size
    THEN [ok |-> FALSE, v |-> V, moved |-> FALSE]
    ELSE LET W == [V EXCEPT
                     !.capacity = new_capacity,
                     !.capacity_bytes = V.element_size * new_capacity]
         IN  IF ralloc = "fail"
             THEN [ok |-> FALSE, v |-> W, moved |-> FALSE]
             ELSE [ok |-> TRUE,
                   v  |-> [W EXCEPT
                            !.data = V.data \o
                                     Fill(new_capacity - V.capacity, Uninit),
                            !.alloc_bytes =
                                Mod(PtrSize * V.element_size * new_capacity)],
                   moved |-> (ralloc = "moved")]

Vec_resize(V, new_capacity, ralloc) ==
    IF V = NULL \/ new_capacity = 0 \/ new_capacity <= V.capacity
    THEN [ok |-> FALSE, v |-> V, moved |-> FALSE]
    ELSE LET max_elements == SIZE_MAX \div V.element_size IN
         IF new_capacity > max_elements
         THEN [ok |-> FALSE, v |-> V, moved |-> FALSE]
         ELSE LET new_capacity_bytes == V.element_size * new_capacity
                  request == Mod(PtrSize * new_capacity_bytes)
              IN  IF ralloc = "fail"
                  THEN [ok |-> FALSE, v |-> V, moved |-> FALSE]
                  ELSE [ok |-> TRUE,
                        v  |-> [V EXCEPT
                                 !.data = V.data \o
                                          Fill(new_capacity - V.capacity, Uninit),
                                 !.capacity = new_capacity,
                                 !.capacity_bytes = new_capacity_bytes,
                                 !.alloc_bytes = request],
                        moved |-> (ralloc = "moved")]

\* a variant that reports success without resizing
handle_capacity_exhaustion_NoResize(V, ralloc) ==
    IF V = NULL \/ V.count # V.capacity
    THEN [ok |-> FALSE, v |-> V, moved |-> FALSE]
    ELSE [ok |-> TRUE, v |-> V, moved |-> FALSE]

handle_capacity_exhaustion(V, ralloc) ==
    IF V = NULL \/ V.count # V.capacity
    THEN [ok |-> FALSE, v |-> V, moved |-> FALSE]
    ELSE LET expansion_factor == 2 IN
         IF V.capacity > 0 /\ V.capacity > (SIZE_MAX \div expansion_factor)
         THEN [ok |-> FALSE, v |-> V, moved |-> FALSE]
         ELSE LET expanded_capacity == Mod(V.capacity_bytes * expansion_factor)
                  aligned_bytes == word_align_size(expanded_capacity)
              IN  IF aligned_bytes = 0
                  THEN [ok |-> FALSE, v |-> V, moved |-> FALSE]
                  ELSE Vec_resize(V, aligned_bytes, ralloc)

\* ------------------------------------------------------------------ append
\* stale: what a read of the released block yields (the item pointed into
\* the block realloc() moved)
Vec_append(V, item, item_size, ralloc, stale) ==
    IF V = NULL \/ item = NULL THEN [ret |-> FALSE, v |-> V, moved |-> FALSE]
    ELSE IF item_size # V.element_size THEN [ret |-> FALSE, v |-> V, moved |-> FALSE]
    ELSE IF Mod(V.count + 1) < V.count THEN [ret |-> FALSE, v |-> V, moved |-> FALSE]
    ELSE LET grown == IF V.count = V.capacity
                      THEN handle_capacity_exhaustion(V, ralloc)
                      ELSE [ok |-> TRUE, v |-> V, moved |-> FALSE]
         IN  IF ~grown.ok THEN [ret |-> FALSE, v |-> grown.v, moved |-> FALSE]
             ELSE LET W == grown.v
                      src == IF item.kind = "inner" /\ grown.moved
                             THEN stale
                             ELSE ReadItem(W, item)
                  IN  [ret |-> TRUE,
                       v   |-> [W EXCEPT
                                !.data[Slot(W, Mod(W.count * W.element_size))] = src,
                                !.count = W.count + 1,
                                !.count_bytes = W.count_bytes + W.element_size],
                       moved |-> grown.moved]

\* ------------------------------------------------------------------ insert
\* a variant that copies front to back, as an overlapping memcpy() may
ShiftRight_Forward(V, i, n) ==
    [k \in 1..Len(V.data) |->
        IF k > Slot(V, i) /\ k <= Slot(V, i) + n
        THEN V.data[Slot(V, i)]
        ELSE V.data[k]]

\* memmove(data + i + element_size, data + i, n * element_size): the n
\* elements from byte offset i on move one slot to the right
ShiftRight(V, i, n) ==
    [k \in 1..Len(V.data) |->
        IF k > Slot(V, i) /\ k <= Slot(V, i) + n
        THEN V.data[k - 1]
        ELSE V.data[k]]

\* a variant that bounds the index by the capacity
InsertRefused_ByCapacity(V, insertion_index_e, item_size) ==
    \/ Mod(V.count + 1) < V.count
    \/ insertion_index_e > V.capacity
    \/ item_size # V.element_size

\* element_count_overflowed || index_out_of_bounds || size mismatch
InsertRefused(V, insertion_index_e, item_size) ==
    \/ Mod(V.count + 1) < V.count
    \/ insertion_index_e > V.count
    \/ item_size # V.element_size

\* ret: the result; v: the vector after the call; glob: the value of
\* item_for_memcmp_predicate after the call
Vec_insert(V, insertion_index_e, item, item_size, ralloc, glob) ==
    IF V = NULL \/ item = NULL
    THEN [ret |-> FALSE, v |-> V, glob |-> glob, moved |-> FALSE]
    ELSE IF InsertRefused(V, insertion_index_e, item_size)
    THEN [ret |-> FALSE, v |-> V, glob |-> glob, moved |-> FALSE]
    ELSE
    LET has == Vec_has(V, item, V.element_size, glob)
        should_reassign_target == has.ret
        where == IF should_reassign_target
                 THEN Vec_where(V, item, V.element_size, has.glob)
                 ELSE [ret |-> 0, glob |-> has.glob]
        grown == IF V.count = V.capacity
                 THEN handle_capacity_exhaustion(V, ralloc)
                 ELSE [ok |-> TRUE, v |-> V, moved |-> FALSE]
    IN  IF ~grown.ok
        THEN [ret |-> FALSE, v |-> grown.v, glob |-> where.glob,
              moved |-> FALSE]
        ELSE
        LET W == grown.v
            insertion_index_i == to_internal_index(W, insertion_index_e)
            elements_to_shift == W.count - insertion_index_e
            reassigned_target_e ==
                IF /\ elements_to_shift >= 1
                   /\ should_reassign_target
                   /\ insertion_index_e <= where.ret
                THEN where.ret + 1
                ELSE where.ret
            shifted == IF elements_to_shift >= 1
                       THEN [W EXCEPT !.data =
                                ShiftRight(W, insertion_index_i, elements_to_shift)]
                       ELSE W
            insertion_target ==
                IF should_reassign_target
                THEN Inner(to_internal_index(shifted, reassigned_target_e))
                ELSE item
        IN  [ret  |-> TRUE,
             v    |-> [shifted EXCEPT
                         !.data[Slot(shifted, insertion_index_i)] =
                             ReadItem(shifted, insertion_target),
                         !.count = shifted.count + 1,
                         !.count_bytes = shifted.count_bytes + shifted.element_size],
             glob |-> where.glob,
             moved |-> grown.moved]

\* ------------------------------------------------------------------ remove
\* a variant that forgets to advance internal_index
RECURSIVE RemoveLoop_NoAdvance(_, _, _)
RemoveLoop_NoAdvance(V, internal_index, elements_to_shift) ==
    IF elements_to_shift > 0
    THEN RemoveLoop_NoAdvance(
             [V EXCEPT !.data[Slot(V, internal_index)] =
                 V.data[Slot(V, internal_index + V.element_size)]],
             internal_index,
             elements_to_shift - 1)
    ELSE [v |-> V, internal_index |-> internal_index]

\* the while loop of Vec_remove: copies the next element over the one at
\* internal_index, elements_to_shift times; yields the data and the final
\* internal_index
RECURSIVE RemoveLoop(_, _, _)
RemoveLoop(V, internal_index, elements_to_shift) ==
    IF elements_to_shift > 0
    THEN RemoveLoop([V EXCEPT !.data[Slot(V, internal_index)] =
                        V.data[Slot(V, internal_index + V.element_size)]],
                    internal_index + V.element_size,
                    elements_to_shift - 1)
    ELSE [v |-> V, internal_index |-> internal_index]

\* a variant that returns the new count, whichever element was removed
Vec_remove_ReturnsCount(V, external_index) ==
    IF V = NULL THEN [ret |-> 0, v |-> V]
    ELSE IF V.count = 0 THEN [ret |-> 0, v |-> V]
    ELSE IF external_index >= V.count THEN [ret |-> V.count, v |-> V]
    ELSE LET internal_index == to_internal_index(V, external_index)
             W == [V EXCEPT !.count = V.count - 1,
                            !.count_bytes = V.count_bytes - V.element_size]
             looped == RemoveLoop(W, internal_index, W.count - external_index)
         IN  [ret |-> W.count,
              v   |-> [looped.v EXCEPT
                         !.data[Slot(looped.v, looped.internal_index)] = 0]]

\* a variant that takes an index past the end for the last element
Vec_remove_ClampsIndex(V, external_index) ==
    IF V = NULL THEN [ret |-> 0, v |-> V]
    ELSE IF V.count = 0 THEN [ret |-> 0, v |-> V]
    ELSE [ret |-> V.count - 1,
          v   |-> [V EXCEPT !.count = V.count - 1,
                            !.count_bytes = V.count_bytes - V.element_size,
                            !.data[V.count] = 0]]

\* a variant that returns the index after the one it was given
Vec_remove_ReturnsNext(V, external_index) ==
    IF V = NULL THEN [ret |-> 0, v |-> V]
    ELSE IF V.count = 0 THEN [ret |-> 0, v |-> V]
    ELSE IF external_index >= V.count THEN [ret |-> V.count, v |-> V]
    ELSE LET internal_index == to_internal_index(V, external_index)
             W == [V EXCEPT !.count = V.count - 1,
                            !.count_bytes = V.count_bytes - V.element_size]
             looped == RemoveLoop(W, internal_index, W.count - external_index)
         IN  [ret |-> external_index + 1,
              v   |-> [looped.v EXCEPT
                         !.data[Slot(looped.v, looped.internal_index)] = 0]]

Vec_remove(V, external_index) ==
    IF V = NULL THEN [ret |-> 0, v |-> V]
    ELSE IF V.count = 0 THEN [ret |-> 0, v |-> V]
    ELSE IF external_index >= V.count THEN [ret |-> V.count, v |-> V]
    ELSE LET internal_index == to_internal_index(V, external_index)
             W == [V EXCEPT !.count = V.count - 1,
                            !.count_bytes = V.count_bytes - V.element_size]
             elements_to_shift == W.count - external_index
             looped == RemoveLoop(W, internal_index, elements_to_shift)
         IN  [ret |-> external_index,
              v   |-> [looped.v EXCEPT
                         !.data[Slot(looped.v, looped.internal_index)] = 0]]

\* ------------------------------------------------------- bulk removal
\* the byte loop of swap() on one element: three exclusive-ors
\* a variant that reports success and exchanges nothing
swap_Nothing(V, a, b) == [ok |-> TRUE, v |-> V]

\* a variant that exchanges only an element with a later one
swap_OnlyForward(V, a, b) ==
    IF V = NULL THEN [ok |-> FALSE, v |-> V]
    ELSE IF \/ a >= b
            \/ a % V.element_size # 0
            \/ b % V.element_size # 0
            \/ b >= V.count_bytes
    THEN [ok |-> FALSE, v |-> V]
    ELSE [ok |-> TRUE,
          v  |-> [V EXCEPT !.data[Slot(V, a)] = V.data[Slot(V, b)],
                           !.data[Slot(V, b)] = V.data[Slot(V, a)]]]

swap(V, a, b) ==
    IF V = NULL THEN [ok |-> FALSE, v |-> V]
    ELSE IF \/ a = b
            \/ a % V.element_size # 0
            \/ b % V.element_size # 0
            \/ a >= V.count_bytes
            \/ b >= V.count_bytes
    THEN [ok |-> FALSE, v |-> V]
    ELSE LET a0 == V.data[Slot(V, a)]
             b0 == V.data[Slot(V, b)]
             a1 == Xor(a0, b0)
             b1 == Xor(b0, a1)
             a2 == Xor(a1, b1)
         IN  [ok |-> TRUE,
              v  |-> [V EXCEPT !.data[Slot(V, a)] = a2,
                               !.data[Slot(V, b)] = b1]]

\* a variant that leaves item_for_memcmp_predicate alone after a swap
RECURSIVE RemoveAllLoop_NoReanchor(_, _, _, _, _)
RemoveAllLoop_NoReanchor(V, predicate, glob, i, e) ==
    IF i < V.count_bytes
    THEN IF CallPredicate(predicate, V, i, glob)
         THEN RemoveAllLoop_NoReanchor(V, predicate, glob, i + V.element_size, e)
         ELSE IF i > e
         THEN RemoveAllLoop_NoReanchor(swap(V, i, e).v, predicate, glob,
                                       i + V.element_size, e + V.element_size)
         ELSE RemoveAllLoop_NoReanchor(V, predicate, glob,
                                       i + V.element_size, e + V.element_size)
    ELSE [failed |-> FALSE, v |-> V, glob |-> glob, e |-> e]

\* the for loop of Vec_remove_all_if from read cursor i with write cursor e;
\* failed: a swap was refused and the function returned 0 from the loop
RECURSIVE RemoveAllLoop(_, _, _, _, _)
RemoveAllLoop(V, predicate, glob, i, e) ==
    IF i < V.count_bytes
    THEN LET removing == CallPredicate(predicate, V, i, glob) IN
         IF removing
         THEN RemoveAllLoop(V, predicate, glob, i + V.element_size, e)
         ELSE IF i > e
         THEN LET swapped == swap(V, i, e) IN
              IF ~swapped.ok
              THEN [failed |-> TRUE, v |-> V, glob |-> glob, e |-> e]
              ELSE RemoveAllLoop(swapped.v, predicate, Inner(i),
                                 i + V.element_size, e + V.element_size)
         ELSE RemoveAllLoop(V, predicate, glob,
                            i + V.element_size, e + V.element_size)
    ELSE [failed |-> FALSE, v |-> V, glob |-> glob, e |-> e]

\* the same loop, as the sequence of its iterations: the vector, the
\* comparison target and the two cursors at the start of each pass through
\* the body, and whether that pass had a swap refused
RECURSIVE ScanStates(_, _, _, _, _)
ScanStates(V, predicate, glob, i, e) ==
    IF i < V.count_bytes
    THEN LET removing == CallPredicate(predicate, V, i, glob)
             swapped == swap(V, i, e)
             here == [v |-> V, glob |-> glob, i |-> i, e |-> e,
                      refused |-> (~removing /\ i > e /\ ~swapped.ok)]
         IN  IF removing
             THEN <<here>> \o ScanStates(V, predicate, glob,
                                         i + V.element_size, e)
             ELSE IF i > e
             THEN IF ~swapped.ok
                  THEN <<here>>
                  ELSE <<here>> \o ScanStates(swapped.v, predicate, Inner(i),
                                              i + V.element_size,
                                              e + V.element_size)
             ELSE <<here>> \o ScanStates(V, predicate, glob,
                                         i + V.element_size,
                                         e + V.element_size)
    ELSE <<>>

\* a variant that leaves the bytes as they are
ZeroFill_Nothing(V, e, n) == V.data

\* memset(data + e, 0, element_size * n)
ZeroFill(V, e, n) ==
    [k \in 1..Len(V.data) |->
        IF k >= Slot(V, e) /\ k < Slot(V, e) + n THEN 0 ELSE V.data[k]]

Vec_remove_all_if(V, predicate, glob) ==
    IF V = NULL \/ predicate = NULL THEN [ret |-> 0, v |-> V, glob |-> glob]
    ELSE IF V.count = 0 THEN [ret |-> 0, v |-> V, glob |-> glob]
    ELSE LET looped == RemoveAllLoop(V, predicate, glob, 0, 0) IN
         IF looped.failed
         THEN [ret |-> 0, v |-> looped.v, glob |-> looped.glob]
         ELSE LET W == looped.v
                  elements_removed == W.count - to_external_index(W, looped.e)
              IN  [ret  |-> elements_removed,
                   v    |-> [W EXCEPT
                              !.count = W.count - elements_removed,
                              !.count_bytes = W.count_bytes
                                              - (W.element_size * elements_removed),
                              !.data = ZeroFill(W, looped.e, elements_removed)],
                   glob |-> looped.glob]

Vec_remove_all(V, item, item_size, glob) ==
    IF V = NULL \/ item = NULL THEN [ret |-> 0, v |-> V, glob |-> glob]
    ELSE IF item_size # V.element_size \/ V.count = 0
    THEN [ret |-> 0, v |-> V, glob |-> glob]
    ELSE Vec_remove_all_if(V, MemcmpPredicate, item)

\* -------------------------------------------------------------------- sort
\* s with x put before the first element that cmp ranks after x
RECURSIVE InsertSorted(_, _, _)
InsertSorted(s, x, cmp) ==
    IF s = <<>> THEN <<x>>
    ELSE IF CallCmp(cmp, x, Head(s)) <= 0 THEN <<x>> \o s
    ELSE <<Head(s)>> \o InsertSorted(Tail(s), x, cmp)

\* qsort(): the elements in an order cmp accepts (elements cmp ranks equal
\* are equal values here, so the order is unique)
RECURSIVE QsortSeq(_, _)
QsortSeq(s, cmp) ==
    IF s = <<>> THEN <<>>
    ELSE InsertSorted(QsortSeq(Tail(s), cmp), Head(s), cmp)

Vec_qsort(V, cmp) ==
    IF V = NULL \/ cmp = NULL THEN [ret |-> FALSE, v |-> V]
    ELSE IF V.count = 0 THEN [ret |-> FALSE, v |-> V]
    ELSE [ret |-> TRUE,
          v   |-> [V EXCEPT !.data =
                     QsortSeq(SubSeq(V.data, 1, V.count), cmp)
                     \o SubSeq(V.data, V.count + 1, Len(V.data))]]

\* ------------------------------------------------------------------- apply
\* visitors: NULL, or a caller's function that returns `code` on an element
\* equal to `stop` and otherwise counts the element in the caller's state,
\* adds one to it when `modify`, and returns 0
NoStop == MaxValue + 1
\* a null state pointer; the visitors then keep no count
NoState == -1
Visitor(stop, code, modify) ==
    [kind |-> "fun", stop |-> stop, code |-> code, modify |-> modify]

CallVisitor(fun, element, state) ==
    IF element = fun.stop
    THEN [ret |-> fun.code, element |-> element, state |-> state]
    ELSE [ret     |-> 0,
          element |-> IF fun.modify
                      THEN (element + 1) % (MaxValue + 1)
                      ELSE element,
          state   |-> IF state = NoState THEN NoState ELSE state + 1]

\* a variant that goes on to the end after a non-zero result
RECURSIVE ApplyLoop_NoEarlyExit(_, _, _, _)
ApplyLoop_NoEarlyExit(V, fun, state, i) ==
    IF i < V.count_bytes
    THEN LET called == CallVisitor(fun, V.data[Slot(V, i)], state)
             rest == ApplyLoop_NoEarlyExit(
                         [V EXCEPT !.data[Slot(V, i)] = called.element],
                         fun, called.state, i + V.element_size)
         IN  IF called.ret # 0 THEN [rest EXCEPT !.ret = called.ret] ELSE rest
    ELSE [ret |-> 0, v |-> V, state |-> state]

\* the while loop of Vec_apply from byte offset i
RECURSIVE ApplyLoop(_, _, _, _)
ApplyLoop(V, fun, state, i) ==
    IF i < V.count_bytes
    THEN LET called == CallVisitor(fun, V.data[Slot(V, i)], state) IN
         IF called.ret # 0
         THEN [ret |-> called.ret,
               v |-> [V EXCEPT !.data[Slot(V, i)] = called.element],
               state |-> called.state]
         ELSE ApplyLoop([V EXCEPT !.data[Slot(V, i)] = called.element],
                        fun, called.state, i + V.element_size)
    ELSE [ret |-> 0, v |-> V, state |-> state]

\* a variant that takes an empty vector for a success
Vec_apply_EmptySucceeds(V, fun, caller_state) ==
    IF V = NULL \/ fun = NULL THEN [ret |-> 1, v |-> V, state |-> caller_state]
    ELSE ApplyLoop(V, fun, caller_state, 0)

Vec_apply(V, fun, caller_state) ==
    IF V = NULL \/ fun = NULL THEN [ret |-> 1, v |-> V, state |-> caller_state]
    ELSE IF V.count = 0 THEN [ret |-> 1, v |-> V, state |-> caller_state]
    ELSE ApplyLoop(V, fun, caller_state, 0)

\* ----------------------------------------------------------------- destroy
\* pp: the Vec** argument, NULL or the address of the caller's handle; the
\* result is the caller's handle after the call
\* a variant that leaves the caller's handle as it was
Vec_destroy_KeepsHandle(pp, V) == V

Vec_destroy(pp, V) ==
    IF pp = NULL \/ V = NULL THEN V ELSE NULL

\* the blocks Vec_destroy() passes to free(), in order
Vec_destroy_heap(pp, V) ==
    IF pp = NULL \/ V = NULL THEN <<>> ELSE <<"data", "vec">>

\* ------------------------------------------------------------ the program
\* `last` records the call that has just returned: its name, its arguments,
\* its result and count and capacity as they were when it was made.  The
\* caller looks at the result (Return) before it makes its next call.
NoCall ==
    [op |-> "none", ret |-> 0, vnull |-> TRUE, index |-> 0,
     item |-> NULL, item_size |-> 0, moved |-> FALSE, state |-> 0,
     pre_count |-> 0, pre_capacity |-> 0]

Idle == last.op = "none"

Call(op, ret, h, index, item, item_size, moved, state) ==
    [op           |-> op,
     ret          |-> ret,
     vnull        |-> (h = NULL),
     index        |-> index,
     item         |-> item,
     item_size    |-> item_size,
     moved        |-> moved,
     state        |-> state,
     pre_count    |-> IF v = NULL THEN 0 ELSE v.count,
     pre_capacity |-> IF v = NULL THEN 0 ELSE v.capacity]

\* The arguments a caller passes.  A call is either well-formed up to its
\* index, or has exactly one malformed argument: a null handle ("v"), a null
\* item, predicate, comparator or visitor ("arg"), or a wrong item size
\* ("size").
Malformed == {"none", "v", "arg", "size"}

Handle(bad) == IF bad = "v" THEN NULL ELSE v

\* the item pointers: a pointer to an object of the caller's own, or what
\* Vec_get() returned for an element
ItemPointers ==
    {Ext(x) : x \in Values}
    \cup (IF v = NULL THEN {} ELSE {Vec_get(v, k) : k \in 0..(v.count - 1)})

Items(bad) ==
    IF bad = "arg" THEN {NULL}
    ELSE IF bad = "none" THEN ItemPointers
    ELSE {Ext(MaxValue)}

ItemSize(bad) ==
    IF v = NULL THEN 1
    ELSE IF bad = "size" THEN v.element_size + 1
    ELSE v.element_size

Indices(bad, max) == IF bad = "none" /\ v # NULL THEN 0..max ELSE {0}

Predicates(bad) ==
    IF bad = "arg" THEN {NULL}
    ELSE IF bad = "none" THEN {InSet(S) : S \in SUBSET Values}
    ELSE {InSet({0})}

Comparators(bad) ==
    IF bad = "arg" THEN {NULL}
    ELSE IF bad = "none" THEN {Ascending, Descending}
    ELSE {Ascending}

Visitors(bad) ==
    IF bad = "arg" THEN {NULL}
    ELSE IF bad = "none"
    THEN {Visitor(NoStop, 2, modify) : modify \in BOOLEAN}
         \cup {Visitor(stop, code, TRUE) : stop \in Values, code \in {2, 3}}
    ELSE {Visitor(NoStop, 2, TRUE)}

\* realloc() is called only by a call that finds the vector full
ReallocChoices ==
    IF v # NULL /\ v.count = v.capacity THEN ReallocOutcomes ELSE {"same"}

\* the released block is read only through an inner pointer after a move
StaleChoices(item, ralloc) ==
    IF item.kind = "inner" /\ ralloc = "moved" THEN Values ELSE {0}

\* the caller's handle after a call that was given h and left it as W
After(h, W) == IF h = NULL THEN v ELSE W

\* `appended` is the caller's record of a test like test_append: the values
\* it has appended to a vector fresh from Vec_new(), kept for as long as the
\* vector has seen nothing but appends of the caller's own objects
Fresh(items) == [fresh |-> TRUE, items |-> items]
NotFresh == [fresh |-> FALSE, items |-> <<>>]

\* the record after a call other than Vec_append() left the handle as W
Track(W) == IF W = v THEN appended ELSE NotFresh

Init ==
    /\ v = NULL
    /\ item_for_memcmp_predicate = NULL
    /\ last = NoCall
    /\ appended = NotFresh

NewVec ==
    /\ Idle
    /\ v = NULL
    /\ \E least_capacity \in LeastCapacities, element_size \in ElementSizes,
          malloc_v \in BOOLEAN, malloc_data \in BOOLEAN :
          LET r == Vec_new(least_capacity, element_size, malloc_v, malloc_data)
          IN  /\ v' = r
              /\ last' = Call("new", r # NULL, NULL, least_capacity, NULL,
                              element_size, FALSE,
                              Vec_new_heap(least_capacity, element_size,
                                           malloc_v, malloc_data))
              /\ appended' = IF r # NULL THEN Fresh(<<>>) ELSE NotFresh
    /\ UNCHANGED item_for_memcmp_predicate

DestroyVec ==
    \E pp \in {NULL, Inner(0)} :
        /\ Idle
        /\ v' = Vec_destroy(pp, v)
        /\ last' = Call("destroy", 0, v, 0, pp, 0, FALSE,
                        Vec_destroy_heap(pp, v))
        /\ appended' = Track(Vec_destroy(pp, v))
        /\ UNCHANGED item_for_memcmp_predicate

AppendItem ==
    /\ Idle
    /\ v # NULL => (v.count < MaxCount \/ v.count = v.capacity)
    /\ \E bad \in Malformed :
       \E item \in Items(bad), ralloc \in ReallocChoices :
       \E stale \in StaleChoices(item, ralloc) :
          LET h == Handle(bad)
              r == Vec_append(h, item, ItemSize(bad), ralloc, stale)
          IN  /\ v' = After(h, r.v)
              /\ last' = Call("append", r.ret, h, 0, item, ItemSize(bad),
                              r.moved, ralloc)
              /\ appended' =
                    IF ~r.ret THEN appended
                    ELSE IF appended.fresh /\ item.kind = "ext"
                    THEN Fresh(appended.items \o <<item.val>>)
                    ELSE NotFresh
    /\ UNCHANGED item_for_memcmp_predicate

InsertItem ==
    /\ Idle
    /\ v # NULL => (v.count < MaxCount \/ v.count = v.capacity)
    /\ \E bad \in Malformed :
       \E item \in Items(bad), ralloc \in ReallocChoices,
          index \in Indices(bad, IF v = NULL THEN 0 ELSE v.count + 1) :
          LET h == Handle(bad)
              r == Vec_insert(h, index, item, ItemSize(bad), ralloc,
                              item_for_memcmp_predicate)
          IN  /\ v' = After(h, r.v)
              /\ item_for_memcmp_predicate' = r.glob
              /\ last' = Call("insert", r.ret, h, index, item, ItemSize(bad),
                              r.moved, ralloc)
              /\ appended' = Track(After(h, r.v))

RemoveAt ==
    /\ Idle
    /\ \E bad \in {"none", "v"} :
       \E index \in Indices(bad, IF v = NULL THEN 0 ELSE v.count + 1) :
           LET h == Handle(bad)
               r == Vec_remove(h, index)
           IN  /\ v' = After(h, r.v)
               /\ last' = Call("remove", r.ret, h, index, NULL, 0, FALSE, 0)
               /\ appended' = Track(After(h, r.v))
               /\ UNCHANGED item_for_memcmp_predicate

RemoveAll ==
    /\ Idle
    /\ \E bad \in Malformed :
       \E item \in Items(bad) :
           LET h == Handle(bad)
               r == Vec_remove_all(h, item, ItemSize(bad),
                                   item_for_memcmp_predicate)
           IN  /\ v' = After(h, r.v)
               /\ item_for_memcmp_predicate' = r.glob
               /\ last' = Call("remove_all", r.ret, h, 0, item, ItemSize(bad),
                               FALSE, 0)
               /\ appended' = Track(After(h, r.v))

RemoveAllIf ==
    /\ Idle
    /\ \E bad \in {"none", "v", "arg"} :
       \E predicate \in Predicates(bad) :
           LET h == Handle(bad)
               r == Vec_remove_all_if(h, predicate, item_for_memcmp_predicate)
           IN  /\ v' = After(h, r.v)
               /\ item_for_memcmp_predicate' = r.glob
               /\ last' = Call("remove_all_if", r.ret, h, 0, predicate, 0,
                               FALSE, 0)
               /\ appended' = Track(After(h, r.v))

Qsort ==
    /\ Idle
    /\ \E bad \in {"none", "v", "arg"} :
       \E cmp \in Comparators(bad) :
           LET h == Handle(bad)
               r == Vec_qsort(h, cmp)
           IN  /\ v' = After(h, r.v)
               /\ last' = Call("qsort", r.ret, h, 0, cmp, 0, FALSE, 0)
               /\ appended' = Track(After(h, r.v))
               /\ UNCHANGED item_for_memcmp_predicate

Apply ==
    /\ Idle
    /\ \E bad \in {"none", "v", "arg"} :
       \E fun \in Visitors(bad), caller_state \in {NoState, 0} :
           LET h == Handle(bad)
               r == Vec_apply(h, fun, caller_state)
           IN  /\ v' = After(h, r.v)
               /\ last' = Call("apply", r.ret, h, 0, fun, 0, FALSE, r.state)
               /\ appended' = Track(After(h, r.v))
               /\ UNCHANGED item_for_memcmp_predicate

Return ==
    /\ ~Idle
    /\ last' = NoCall
    /\ UNCHANGED <<v, item_for_memcmp_predicate, appended>>

Next ==
    \/ NewVec
    \/ DestroyVec
    \/ AppendItem
    \/ InsertItem
    \/ RemoveAt
    \/ RemoveAll
    \/ RemoveAllIf
    \/ Qsort
    \/ Apply
    \/ Return

Spec == Init /\ [][Next]_vars

\* ------------------------------------------------- vectors built by a test
\* the occupied elements, in index order
Elements(V) == SubSeq(V.data, 1, V.count)

\* the sequences over vals of length at most n
SeqsUpTo(vals, n) == UNION {[1..k -> vals] : k \in 0..n}

\* V after appending the caller's objects `items` one by one, as the tests
\* fill their vectors; realloc() extends the block in place
RECURSIVE AppendAll(_, _)
AppendAll(V, items) ==
    IF items = <<>> THEN V
    ELSE AppendAll(Vec_append(V, Ext(Head(items)), V.element_size,
                              "same", 0).v,
                   Tail(items))

\* the vectors a test gets from Vec_new() and appends of values of vals
BuiltVectors(vals) ==
    {AppendAll(Vec_new(least_capacity, element_size, TRUE, TRUE), items) :
        least_capacity \in LeastCapacities \ {0},
        element_size \in ElementSizes \ {0},
        items \in SeqsUpTo(vals, MaxCount)} \ {NULL}

\* the queries on their own: a vector as a test builds it, then calls
\* that leave it as it is
InitBuilt ==
    /\ v \in BuiltVectors(Values)
    /\ item_for_memcmp_predicate = NULL
    /\ last = NoCall
    /\ appended = NotFresh

Where ==
    /\ Idle
    /\ \E bad \in Malformed :
       \E item \in Items(bad) :
           LET h == Handle(bad)
               r == Vec_where(h, item, ItemSize(bad),
                              item_for_memcmp_predicate)
           IN  /\ item_for_memcmp_predicate' = r.glob
               /\ last' = Call("where", r.ret, h, 0, item, ItemSize(bad),
                               FALSE, item_for_memcmp_predicate)
               /\ UNCHANGED <<v, appended>>

WhereIf ==
    /\ Idle
    /\ \E bad \in {"none", "v", "arg"} :
       \E predicate \in Predicates(bad) :
           LET h == Handle(bad)
               r == Vec_where_if(h, predicate, item_for_memcmp_predicate)
           IN  /\ last' = Call("where_if", r, h, 0, predicate, 0, FALSE, 0)
               /\ UNCHANGED <<v, item_for_memcmp_predicate, appended>>

Has ==
    /\ Idle
    /\ \E bad \in Malformed :
       \E item \in Items(bad) :
           LET h == Handle(bad)
               r == Vec_has(h, item, ItemSize(bad), item_for_memcmp_predicate)
           IN  /\ item_for_memcmp_predicate' = r.glob
               /\ last' = Call("has", r.ret, h, 0, item, ItemSize(bad),
                               FALSE, item_for_memcmp_predicate)
               /\ UNCHANGED <<v, appended>>

HasIf ==
    /\ Idle
    /\ \E bad \in {"none", "v", "arg"} :
       \E predicate \in Predicates(bad) :
           LET h == Handle(bad)
               r == Vec_has_if(h, predicate, item_for_memcmp_predicate)
           IN  /\ last' = Call("has_if", r, h, 0, predicate, 0, FALSE, 0)
               /\ UNCHANGED <<v, item_for_memcmp_predicate, appended>>

\* the indices a caller asks for: the elements, the first two slack
\* positions and the capacity
GetIndices == (0..(v.count + 1)) \cup {v.capacity}

Get ==
    /\ Idle
    /\ \E bad \in {"none", "v"} :
       \E index \in (IF bad = "none" THEN GetIndices ELSE {0}) :
           LET h == Handle(bad)
               r == Vec_get(h, index)
           IN  /\ last' = Call("get", r, h, index, NULL, 0, FALSE, 0)
               /\ UNCHANGED <<v, item_for_memcmp_predicate, appended>>

NextQuery ==
    \/ Where
    \/ WhereIf
    \/ Has
    \/ HasIf
    \/ Get
    \/ Return

SpecQuery == InitBuilt /\ [][NextQuery]_vars

\* equality on its own: the vector of the caller and a second one built
\* like it, or nearly.
\* SimilarSeqs: s, s and one more element, s with one element changed, s
\* without its last element
SimilarSeqs(s) ==
    {s, s \o <<0>>}
    \cup {[s EXCEPT ![k] = (s[k] + 1) % (MaxValue + 1)] : k \in 1..Len(s)}
    \cup (IF s = <<>> THEN {} ELSE {SubSeq(s, 1, Len(s) - 1)})

\* V with one more element appended and removed again: the slack that
\* follows the elements has been written
Trimmed(V) ==
    Vec_remove(Vec_append(V, Ext(MaxValue), V.element_size, "same", 0).v,
               V.count).v

\* the second vectors: the caller's own, and vectors built from sequences
\* like its elements with any element size and capacity
Others(V) ==
    {V}
    \cup {AppendAll(Vec_new(least_capacity, element_size, TRUE, TRUE), items) :
            least_capacity \in LeastCapacities \ {0},
            element_size \in ElementSizes \ {0},
            items \in SimilarSeqs(Elements(V))}
    \cup {Trimmed(AppendAll(Vec_new(least_capacity, element_size, TRUE, TRUE),
                            Elements(V))) :
            least_capacity \in LeastCapacities \ {0},
            element_size \in ElementSizes \ {0}}

EqualArgs(v_b, cmp) == [kind |-> "equal", v_b |-> v_b, cmp |-> cmp]

Equal ==
    /\ Idle
    /\ \E bad \in {"none", "v", "arg"} :
       \E v_b \in (IF bad = "arg" THEN {NULL} ELSE Others(v)),
          cmp \in (IF bad = "none" THEN {NULL, Ascending} ELSE {NULL}) :
           LET h == Handle(bad)
               r == Vec_equal(h, v_b, cmp)
           IN  /\ last' = Call("equal", r, h, 0, EqualArgs(v_b, cmp), 0,
                               FALSE, 0)
               /\ UNCHANGED <<v, item_for_memcmp_predicate, appended>>

NextEqual ==
    \/ Equal
    \/ Return

SpecEqual == InitBuilt /\ [][NextEqual]_vars

\* removal on its own: a vector as a test builds it, with one more value
\* than the predicates tell apart, then removals only
InitRemoval ==
    /\ v \in BuiltVectors(0..(MaxValue + 1))
    /\ item_for_memcmp_predicate = NULL
    /\ last = NoCall
    /\ appended = NotFresh

NextRemoval ==
    \/ RemoveAt
    \/ RemoveAll
    \/ RemoveAllIf
    \/ Return

SpecRemoval == InitRemoval /\ [][NextRemoval]_vars

\* growth on its own: a vector a test has filled to its capacity, then
\* appends and inserts.  The shapes are (least_capacity, element_size) pairs
\* whose doubled byte capacity fits the size type, wraps around it, or makes
\* the new capacity times the element size too large.
GrowthShapes ==
    {<<1, 16>>, <<2, 6>>, <<1, 144>>, <<1, 256>>, <<1, 32768>>, <<24, 1366>>}

\* V filled to its capacity with the values x, x + 1, ... of Values
Filled(V, x) ==
    AppendAll(V, [k \in 1..V.capacity |-> (x + k) % (MaxValue + 1)])

FullVectors ==
    {Filled(Vec_new(shape[1], shape[2], TRUE, TRUE), x) :
        shape \in GrowthShapes, x \in Values}

InitGrowth ==
    /\ v \in FullVectors
    /\ item_for_memcmp_predicate = NULL
    /\ last = NoCall
    /\ appended = NotFresh

NextGrowth ==
    \/ AppendItem
    \/ InsertItem
    \/ Return

SpecGrowth == InitGrowth /\ [][NextGrowth]_vars

\* the loop of test_remove_until_empty, from any index up to the count:
\* `last` holds the index the loop began with and, in ret, its variable i
InitDrain ==
    /\ v \in BuiltVectors(Values)
    /\ item_for_memcmp_predicate = NULL
    /\ \E i \in 0..v.count :
          last = Call("drain", i, v, i, NULL, 0, FALSE, 0)
    /\ appended = NotFresh

\* while (i < Vec_count(v)) i = Vec_remove(v, i);
DrainStep ==
    /\ last.op = "drain"
    /\ last.ret < v.count
    /\ v' = Vec_remove(v, last.ret).v
    /\ last' = [last EXCEPT !.ret = Vec_remove(v, last.ret).ret]
    /\ UNCHANGED <<item_for_memcmp_predicate, appended>>

NextDrain == DrainStep

SpecDrain == InitDrain /\ [][NextDrain]_vars

\* the loop is not held up for ever while its condition holds
SpecDrainFair == InitDrain /\ [][NextDrain]_vars /\ WF_vars(DrainStep)

\* the calls that compare bytes with item_for_memcmp_predicate, after
\* calls that leave it set: where and has record in `last` the value they
\* found in it
NextTarget ==
    \/ Where
    \/ Has
    \/ InsertItem
    \/ RemoveAll
    \/ RemoveAllIf
    \/ Return

SpecTarget == InitBuilt /\ [][NextTarget]_vars

\* a vector's life: made, filled, destroyed
NextLifecycle ==
    \/ NewVec
    \/ AppendItem
    \/ DestroyVec
    \/ Return

SpecLifecycle == Init /\ [][NextLifecycle]_vars

\* apply on its own
NextApply ==
    \/ Apply
    \/ Return

SpecApply == InitBuilt /\ [][NextApply]_vars

\* the value an item pointer denotes in vector V
ValueOf(V, item) == ReadItem(V, item)

\* the latest call was an append or insert that found the vector full and
\* returned true
JustGrew ==
    /\ last.op \in {"append", "insert"}
    /\ last.ret
    /\ last.pre_count = last.pre_capacity

Max(a, b) == IF a >= b THEN a ELSE b

\* s without its k-th element
Without(s, k) == SubSeq(s, 1, k - 1) \o SubSeq(s, k + 1, Len(s))

\* ------------------------------------------------------------------ claims

\* C1: in every state reachable from a successful new by any sequence of
\* append, insert, remove, remove_all, remove_all_if, sort and apply calls,
\* successful or failing, count <= capacity.
C1_CountWithinCapacity == v # NULL => v.count <= v.capacity

\* a full vector has just grown and taken one more element
C1_Witness == v # NULL /\ JustGrew /\ v.count = last.pre_capacity + 1

\* C2 as stated: in every reachable state capacity_bytes equals
\* capacity * element_size exactly, also right after new with an element
\* size that does not divide the word-aligned byte size.
C2_Original == v # NULL => v.capacity_bytes = v.capacity * v.element_size

ExactBytes(V) == V.capacity_bytes = V.capacity * V.element_size

\* C2 amended: in every reachable state capacity is capacity_bytes divided
\* by element_size rounded down (capacity * element_size <= capacity_bytes <
\* (capacity + 1) * element_size); the two are exactly equal after every
\* growth and stay equal from then on.
C2_BytesCoverCapacity ==
    [][v' # NULL =>
        /\ v'.capacity * v'.element_size <= v'.capacity_bytes
        /\ v'.capacity_bytes < (v'.capacity + 1) * v'.element_size
        /\ (v # NULL /\ (ExactBytes(v) \/ v'.capacity # v.capacity))
               => ExactBytes(v')]_vars

\* a vector whose element size does not divide the word-aligned size of an
\* element has grown
C2_Witness ==
    /\ v # NULL
    /\ JustGrew
    /\ word_align_size(v.element_size) % v.element_size # 0
    /\ ExactBytes(v)

\* C3: after n successful appends of x_0..x_(n-1) to a freshly created
\* container, also when they cross a growth, count = n and get(i) yields
\* x_i for every i in [0, n).
C3_AppendRoundTrip ==
    (v # NULL /\ appended.fresh) =>
        /\ v.count = Len(appended.items)
        /\ \A i \in 0..(Len(appended.items) - 1) :
              /\ Vec_get(v, i) # NULL
              /\ ValueOf(v, Vec_get(v, i)) = appended.items[i + 1]

\* appends alone have filled the vector, made it grow, and differ in value
C3_Witness ==
    /\ v # NULL
    /\ appended.fresh
    /\ JustGrew
    /\ Len(appended.items) >= 2
    /\ appended.items[1] # appended.items[Len(appended.items)]

\* C4 as stated: an append or insert that has to grow the container makes
\* the capacity max(2 * old capacity, 1) and keeps the elements that were
\* there in order.
C4_Original ==
    [][(/\ last'.op \in {"append", "insert"}
        /\ last'.ret
        /\ v # NULL
        /\ v.count = v.capacity)
       => /\ v'.capacity = Max(2 * v.capacity, 1)
          /\ Without(Elements(v'),
                     IF last'.op = "append" THEN v.count + 1
                     ELSE last'.index + 1) = Elements(v)]_vars

\* C5: an append or insert made while count < capacity never changes
\* capacity, and one made at count = capacity that returns true leaves
\* capacity strictly greater.
C5_GrowthOnlyWhenFull ==
    [][(last'.op \in {"append", "insert"} /\ v # NULL /\ v' # NULL) =>
        /\ v.count < v.capacity => v'.capacity = v.capacity
        /\ (v.count = v.capacity /\ ~last'.vnull /\ last'.ret)
              => v'.capacity > v.capacity]_vars

\* an insert into a full vector has returned true
C5_Witness ==
    /\ v # NULL
    /\ last.op = "insert"
    /\ JustGrew
    /\ v.capacity > last.pre_capacity

\* C6: insert(t, item) with item a pointer to element k of the same
\* container puts the value element k had before the call at index t, for
\* every relative position of t and k, with room and when it must grow.
C6_InsertInnerPointer ==
    [][(/\ last'.op = "insert"
        /\ last'.ret
        /\ last'.item.kind = "inner")
       => /\ v'.count = v.count + 1
          /\ ValueOf(v', Vec_get(v', last'.index))
                = ValueOf(v, last'.item)]_vars

\* a full vector grew and moved, and the element the pointer denoted was
\* shifted, so that the pointer's offset now holds another value
C6_Witness ==
    /\ v # NULL
    /\ last.op = "insert"
    /\ JustGrew
    /\ last.moved
    /\ last.item.kind = "inner"
    /\ last.index * v.element_size <= last.item.off
    /\ ValueOf(v, last.item) # ValueOf(v, Vec_get(v, last.index))

\* C7 as stated: append(item) with item a pointer to element k of the same
\* container stores at index old count the value element k had before the
\* call, also when the growth moves the buffer before the copy.
C7_Original ==
    [][(/\ last'.op = "append"
        /\ last'.ret
        /\ last'.item.kind = "inner")
       => ValueOf(v', Vec_get(v', v.count)) = ValueOf(v, last'.item)]_vars

\* C8: a successful insert(index, item) with index in [0, count] turns the
\* elements s into s[0..index) ++ [item] ++ s[index..count).
C8_InsertShifts ==
    [][(last'.op = "insert" /\ last'.ret) =>
        /\ last'.index <= v.count
        /\ v'.count = v.count + 1
        /\ Elements(v') = SubSeq(Elements(v), 1, last'.index)
                          \o <<ValueOf(v, last'.item)>>
                          \o SubSeq(Elements(v), last'.index + 1, v.count)]_vars

\* an insert before two elements of different value, into a full vector
C8_Witness ==
    /\ v # NULL
    /\ last.op = "insert"
    /\ JustGrew
    /\ last.index + 2 <= last.pre_count
    /\ ValueOf(v, Vec_get(v, last.index + 1))
          # ValueOf(v, Vec_get(v, last.index + 2))

\* C9: insert returns false and leaves count, capacity and every element
\* unchanged when index > count, when item_size # element_size or when the
\* container or item pointer is null; append does the same on an item_size
\* mismatch or null pointers.
C9_InvalidArguments ==
    [][(/\ last'.op \in {"append", "insert"}
        /\ \/ last'.vnull
           \/ last'.item = NULL
           \/ last'.item_size # v.element_size
           \/ last'.op = "insert" /\ last'.index > v.count)
       => /\ last'.ret = FALSE
          /\ v' = v]_vars

\* an insert past the end of a vector that holds elements was refused
C9_Witness ==
    /\ v # NULL
    /\ v.count > 0
    /\ last.op = "insert"
    /\ ~last.vnull
    /\ last.item # NULL
    /\ last.item_size = v.element_size
    /\ last.index > v.count
    /\ last.ret = FALSE

\* C10: remove(i) with i in [0, count) turns [a0..an] into
\* [a0..a(i-1), a(i+1)..an]: count drops by one, capacity is unchanged and
\* the order of the remaining elements is kept.
C10_RemoveCloses ==
    [][(/\ last'.op = "remove"
        /\ ~last'.vnull
        /\ v # NULL
        /\ last'.index < v.count)
       => /\ v'.count = v.count - 1
          /\ v'.capacity = v.capacity
          /\ Elements(v') = Without(Elements(v), last'.index + 1)]_vars

\* the head of three elements was removed and the two left differ
C10_Witness ==
    /\ v # NULL
    /\ last.op = "remove"
    /\ ~last.vnull
    /\ last.index = 0
    /\ last.pre_count = 3
    /\ v.count = 2
    /\ ValueOf(v, Vec_get(v, 0)) # ValueOf(v, Vec_get(v, 1))

\* the elements of s that p does not hold of, in their order
Kept(s, predicate) == SelectSeq(s, LAMBDA x : x \notin predicate.set)

\* the elements of s other than x, in their order
Other(s, x) == SelectSeq(s, LAMBDA y : y # x)

\* while an element satisfies the predicate, remove the first such one
RECURSIVE RemoveFirstRepeatedly(_, _)
RemoveFirstRepeatedly(V, predicate) ==
    LET first == Vec_where_if(V, predicate, NULL) IN
    IF first = V.count THEN V
    ELSE RemoveFirstRepeatedly(Vec_remove(V, first).v, predicate)

\* the latest call was a removal made on the caller's vector
Removal(l) ==
    /\ l.op \in {"remove", "remove_all", "remove_all_if"}
    /\ ~l.vnull

\* C11: after any successful remove, remove_all or remove_all_if, every
\* byte of the region that has just become slack, from the new count_bytes
\* up to the old count_bytes, is zero.
C11_SlackZeroed ==
    [][(Removal(last') /\ v # NULL /\ v'.count < v.count) =>
        /\ v'.count_bytes = v'.count * v'.element_size
        /\ \A k \in (v'.count + 1)..v.count : v'.data[k] = 0]_vars

\* remove_all_if has cut off two elements that were not zero
C11_Witness ==
    /\ v # NULL
    /\ last.op = "remove_all_if"
    /\ ~last.vnull
    /\ last.item = InSet({1})
    /\ last.ret = 2
    /\ last.pre_count = 3
    /\ v.data[2] = 0
    /\ v.data[3] = 0

\* C12: a successful remove(i) returns i, the index that now holds the
\* element that followed the removed one, and i equals the new count
\* exactly when the removed element was the last one.
C12_RemoveReturnsIndex ==
    [][(/\ last'.op = "remove"
        /\ ~last'.vnull
        /\ v # NULL
        /\ last'.index < v.count)
       => /\ last'.ret = last'.index
          /\ (last'.ret = v'.count) <=> (last'.index = v.count - 1)
          /\ last'.index < v.count - 1 =>
                ValueOf(v', Vec_get(v', last'.ret))
                   = ValueOf(v, Vec_get(v, last'.index + 1))]_vars

\* the middle one of three elements was removed and the element that
\* followed it differs from the head
C12_Witness ==
    /\ v # NULL
    /\ last.op = "remove"
    /\ ~last.vnull
    /\ last.pre_count = 3
    /\ last.index = 1
    /\ last.ret = 1
    /\ v.count = 2
    /\ ValueOf(v, Vec_get(v, 1)) # ValueOf(v, Vec_get(v, 0))

C14_EraseRemove ==
    [][(/\ last'.op = "remove_all_if"
        /\ ~last'.vnull
        /\ v # NULL
        /\ last'.item # NULL)
       => /\ Elements(v') = Kept(Elements(v), last'.item)
          /\ Elements(v') = Elements(RemoveFirstRepeatedly(v, last'.item))
          /\ v'.count = Len(Kept(Elements(v), last'.item))
          /\ last'.ret = v.count - v'.count
          /\ v'.capacity = v.capacity]_vars

\* the head of three elements satisfied the predicate and the two kept
\* elements, which differ, were swapped forward
C14_Witness ==
    /\ v # NULL
    /\ last.op = "remove_all_if"
    /\ ~last.vnull
    /\ last.item # NULL
    /\ last.pre_count = 3
    /\ last.ret = 1
    /\ v.count = 2
    /\ v.data[1] > v.data[2]
    /\ v.data[3] = 0
    /\ item_for_memcmp_predicate = Inner(2 * v.element_size)

\* C15: remove_all(item) with item a pointer to element k of the same
\* container removes exactly the elements byte-equal to the value element
\* k had before the call and returns their number, the same result as a
\* call with an external copy of that value.
C15_RemoveAllInnerPointer ==
    [][(/\ last'.op = "remove_all"
        /\ ~last'.vnull
        /\ v # NULL
        /\ last'.item.kind = "inner"
        /\ last'.item_size = v.element_size)
       => LET x == ValueOf(v, last'.item)
              copy == Vec_remove_all(v, Ext(x), v.element_size,
                                     item_for_memcmp_predicate)
          IN  /\ Elements(v') = Other(Elements(v), x)
              /\ last'.ret = v.count - Len(Other(Elements(v), x))
              /\ v'.count = v.count - last'.ret
              /\ Elements(v') = Elements(copy.v)
              /\ last'.ret = copy.ret]_vars

\* the pointer was to the head of three elements; the kept middle element
\* was swapped over the head, and the tail still matched and was removed
C15_Witness ==
    /\ v # NULL
    /\ last.op = "remove_all"
    /\ ~last.vnull
    /\ last.item = Inner(0)
    /\ last.pre_count = 3
    /\ last.ret = 2
    /\ v.count = 1
    /\ item_for_memcmp_predicate = Inner(v.element_size)

\* the least index of V whose element is in the set `wanted`, or count
FirstIn(V, wanted) ==
    LET matches == {k \in 0..(V.count - 1) : V.data[k + 1] \in wanted} IN
    IF matches = {} THEN V.count
    ELSE CHOOSE k \in matches : \A j \in matches : k <= j

\* the values a where() call looks for: none when it is refused
Wanted(V, l) ==
    IF l.op = "where"
    THEN IF l.item = NULL \/ l.item_size # V.element_size THEN {}
         ELSE {ValueOf(V, l.item)}
    ELSE IF l.item = NULL THEN {} ELSE l.item.set

\* C16: where(item, item_size) returns the smallest index whose element is
\* byte-equal to item and where_if(p) the smallest index whose element
\* satisfies p; each returns count when no element matches, when the item
\* or predicate is null, or (where) when item_size # element_size; the
\* result is always <= count.
C16_WhereFirstMatch ==
    [][(last'.op \in {"where", "where_if"} /\ ~last'.vnull /\ v # NULL) =>
        /\ last'.ret = FirstIn(v, Wanted(v, last'))
        /\ last'.ret <= v.count
        /\ v' = v]_vars

\* where() was given a value that the second and the third of three
\* elements hold, and not the first
C16_Witness ==
    /\ v # NULL
    /\ last.op = "where"
    /\ ~last.vnull
    /\ last.item # NULL
    /\ last.item.kind = "ext"
    /\ last.item_size = v.element_size
    /\ v.count = 3
    /\ v.data[1] # last.item.val
    /\ v.data[2] = last.item.val
    /\ v.data[3] = last.item.val
    /\ last.ret = 1

\* C17: get(index) returns a reference to the element at that index for
\* every index < count and null for every index >= count, also inside the
\* slack, at index = count and at index = capacity, and does not change
\* the container.
C17_GetBounds ==
    [][(last'.op = "get" /\ ~last'.vnull /\ v # NULL) =>
        /\ last'.index < v.count =>
              /\ last'.ret = Inner(last'.index * v.element_size)
              /\ ValueOf(v, last'.ret) = Elements(v)[last'.index + 1]
        /\ last'.index >= v.count => last'.ret = NULL
        /\ v' = v]_vars

\* get() returned null for an index inside the slack of a vector that
\* holds elements
C17_Witness ==
    /\ v # NULL
    /\ last.op = "get"
    /\ ~last.vnull
    /\ v.count > 0
    /\ last.index > v.count
    /\ last.index < v.capacity
    /\ last.ret = NULL

\* C18: equal(A, B) with byte-equality is true exactly when A and B have
\* the same element_size, the same count and pairwise equal occupied
\* elements; the result never depends on capacity or on slack bytes, so two
\* empty containers are equal iff their element_size matches and
\* containers with different element_size are never equal.
C18_EqualOccupied ==
    [][(/\ last'.op = "equal"
        /\ ~last'.vnull
        /\ v # NULL
        /\ last'.item.v_b # NULL
        /\ last'.item.cmp = NULL)
       => (last'.ret <=>
              /\ v.element_size = last'.item.v_b.element_size
              /\ v.count = last'.item.v_b.count
              /\ Elements(v) = Elements(last'.item.v_b))]_vars

\* two vectors with the same two elements, another capacity and another
\* slack compared equal
C18_Witness ==
    /\ v # NULL
    /\ last.op = "equal"
    /\ ~last.vnull
    /\ last.item.v_b # NULL
    /\ last.item.cmp = NULL
    /\ v.count = 2
    /\ v.capacity > 2
    /\ last.item.v_b.capacity > 2
    /\ last.item.v_b.capacity # v.capacity
    /\ last.item.v_b.data[3] # v.data[3]
    /\ last.ret = TRUE

\* C19: apply(visitor, state) calls the visitor on the elements in
\* increasing index order; if the first non-zero result is on the element
\* at index k, apply returns that code and the visitor has been called on
\* exactly the elements 0..k; if every call returns 0, apply returns 0
\* after visiting all count elements once each.
C19_ApplyEarlyExit ==
    [][(/\ last'.op = "apply"
        /\ ~last'.vnull
        /\ v # NULL
        /\ last'.item # NULL
        /\ v.count > 0)
       => LET fun == last'.item
              k == FirstIn(v, {fun.stop})
          IN  /\ last'.ret = IF k < v.count THEN fun.code ELSE 0
              /\ last'.state \in {NoState, k}
              /\ v'.count = v.count
              /\ \A j \in 1..v.count :
                    v'.data[j] = IF j <= k /\ fun.modify
                                 THEN (v.data[j] + 1) % (MaxValue + 1)
                                 ELSE v.data[j]]_vars

\* the visitor stopped with code 3 on the middle one of three elements,
\* after it had counted and changed the head and before it saw the tail
C19_Witness ==
    /\ v # NULL
    /\ last.op = "apply"
    /\ ~last.vnull
    /\ last.item # NULL
    /\ last.item.modify
    /\ v.count = 3
    /\ last.ret = 3
    /\ last.state = 1
    /\ v.data[2] = last.item.stop
    /\ v.data[3] # last.item.stop

\* C20: apply returns the failure code 1, without calling the visitor and
\* without changing the container, when the container is null, the visitor
\* is null or the container is empty, whatever state pointer is passed.
C20_ApplyRefused ==
    [][(/\ last'.op = "apply"
        /\ \/ last'.vnull
           \/ last'.item = NULL
           \/ v # NULL /\ v.count = 0)
       => /\ last'.ret = 1
          /\ last'.state \in {NoState, 0}
          /\ v' = v]_vars

\* apply with a visitor and a state of the caller was refused on an empty
\* vector
C20_Witness ==
    /\ v # NULL
    /\ v.count = 0
    /\ last.op = "apply"
    /\ ~last.vnull
    /\ last.item # NULL
    /\ last.state = 0
    /\ last.ret = 1

\* C21: new(min_capacity, element_size) returns no handle and allocates
\* nothing when min_capacity = 0, when element_size = 0, or when
\* min_capacity * element_size exceeds the maximum representable size.
C21_NewRefuses ==
    (/\ last.op = "new"
     /\ \/ last.index = 0
        \/ last.item_size = 0
        \/ last.index * last.item_size > SIZE_MAX)
    => /\ last.ret = FALSE
       /\ v = NULL
       /\ last.state.mallocs = 0
       /\ last.state.frees = 0

\* new() was refused for a product of two non-zero arguments that does not
\* fit the size type
C21_Witness ==
    /\ last.op = "new"
    /\ last.index > 0
    /\ last.item_size > 0
    /\ last.index * last.item_size > SIZE_MAX
    /\ last.ret = FALSE
    /\ v = NULL

\* C22: every successful new(min_capacity, element_size) yields a
\* container with count = 0, element_size equal to the argument and
\* capacity >= min_capacity.
C22_NewShape ==
    [][(last'.op = "new" /\ last'.ret) =>
        /\ v' # NULL
        /\ v'.count = 0
        /\ v'.count_bytes = 0
        /\ v'.element_size = last'.item_size
        /\ v'.capacity >= last'.index
        /\ Len(v'.data) = v'.capacity]_vars

\* new() rounded the capacity up: more room than was asked for
C22_Witness ==
    /\ v # NULL
    /\ last.op = "new"
    /\ last.ret
    /\ v.capacity > last.index
    /\ v.capacity_bytes > last.index * last.item_size

\* C23: destroy releases the container's buffer exactly once and sets the
\* caller's handle to null; destroy on the now-null handle, or with a null
\* handle pointer, does nothing: no second release, no error.
C23_DestroyOnce ==
    [][last'.op = "destroy" =>
        /\ (last'.item # NULL /\ v # NULL) =>
              /\ v' = NULL
              /\ last'.state = <<"data", "vec">>
        /\ (last'.item = NULL \/ v = NULL) =>
              /\ v' = v
              /\ last'.state = <<>>]_vars

\* destroy was called through a valid handle pointer on a null handle
C23_Witness ==
    /\ v = NULL
    /\ last.op = "destroy"
    /\ last.item # NULL
    /\ last.vnull
    /\ last.state = <<>>

\* the call just made was well-formed: a handle, an item, the right size
WellFormed ==
    /\ ~last.vnull
    /\ last.item # NULL
    /\ v # NULL
    /\ last.item_size = v.element_size

\* C24: if the allocator refuses the growth request during an append or
\* insert at count = capacity, the call returns false and the container is
\* exactly as before: same buffer, count, capacity, capacity_bytes and
\* elements in the same order, nothing shifted.
C24_RefusedGrowth ==
    [][(/\ last'.op \in {"append", "insert"}
        /\ last'.state = "fail"
        /\ ~last'.vnull
        /\ v.count = v.capacity)
       => /\ last'.ret = FALSE
          /\ last'.moved = FALSE
          /\ v' = v]_vars

\* an insert in front of the elements of a full vector was refused by the
\* allocator alone: the same call succeeds when realloc() does
C24_Witness ==
    /\ last.op = "insert"
    /\ last.state = "fail"
    /\ last.ret = FALSE
    /\ WellFormed
    /\ last.pre_count = last.pre_capacity
    /\ v.count = v.capacity
    /\ last.index < v.count
    /\ handle_capacity_exhaustion(v, "same").ok

\* the doubled byte capacity, and the byte size of the capacity that
\* growth derives from it, as unbounded integers
DoubledBytes(V) == V.capacity_bytes * 2

GrownBytes(V) == word_align_size(Mod(DoubledBytes(V))) * V.element_size

\* C25: growth refuses whenever a multiplication in computing the new size
\* overflows the size type: if capacity_bytes * 2 or the new capacity times
\* element_size exceeds SIZE_MAX, the append or insert returns false and
\* the container is unchanged.
C25_Original ==
    [][(/\ last'.op \in {"append", "insert"}
        /\ ~last'.vnull
        /\ v.count = v.capacity
        /\ \/ DoubledBytes(v) > SIZE_MAX
           \/ GrownBytes(v) > SIZE_MAX)
       => /\ last'.ret = FALSE
          /\ v' = v]_vars

\* C30: after every successful growth the bytes requested from the
\* allocator, PtrSize * (element_size * new_capacity) modulo 2^w, are at
\* least the recorded capacity_bytes.
C30_Original ==
    JustGrew => v.alloc_bytes >= v.capacity_bytes

\* C26: as the header documents it, Vec_remove leaves the vector unmodified
\* and returns 0 when the vector is not empty and the index is out of
\* bounds.
C26_Original ==
    (/\ last.op = "remove"
     /\ ~last.vnull
     /\ last.pre_count > 0
     /\ last.index > last.pre_count)
    => /\ last.ret = 0
       /\ v.count = last.pre_count

\* C27: from any index i <= count, the loop `while (i < count)
\* i = remove(i)` ends after finitely many steps with count = i; begun at
\* 0 it ends with count = 0.
C27_DrainTerminates ==
    <>[](/\ last.ret = v.count
         /\ last.index = 0 => v.count = 0)

\* the loop began at 0 on three elements and has emptied the vector
C27_Witness ==
    /\ last.op = "drain"
    /\ last.index = 0
    /\ last.pre_count = MaxCount
    /\ last.ret = 0
    /\ v.count = 0
    /\ \A k \in 1..MaxCount : k <= v.capacity => v.data[k] = 0

\* the predicate and the comparison target a bulk removal scans with
ScanPredicate(l) == IF l.op = "remove_all" THEN MemcmpPredicate ELSE l.item

ScanTarget(l, glob) == IF l.op = "remove_all" THEN l.item ELSE glob

\* the first n elements of V that the predicate does not hold for, in order
KeptSoFar(V, predicate, glob, n) ==
    LET keep(k) == ~CallPredicate(predicate, V, to_internal_index(V, k - 1), glob)
        kept == {k \in 1..n : keep(k)}
        nth[m \in 0..n] ==
            IF m = 0 THEN 0
            ELSE CHOOSE k \in kept :
                    /\ k > nth[m - 1]
                    /\ \A j \in kept : j > nth[m - 1] => k <= j
    IN  [m \in 1..Cardinality(kept) |-> V.data[nth[m]]]

\* C28: at every iteration of the remove_all_if scan with read cursor i and
\* write cursor e: e <= i, both are multiples of element_size below
\* count_bytes, the elements in [0, e) are the kept elements seen so far in
\* their original order and every element in [e, i) satisfies the
\* predicate; so no swap(i, e) is refused and the early return is never
\* taken: the scan visits every element.
C28_ScanInvariant ==
    [][(/\ last'.op \in {"remove_all", "remove_all_if"}
        /\ ~last'.vnull
        /\ v # NULL
        /\ last'.item # NULL
        /\ last'.op = "remove_all" => last'.item_size = v.element_size)
       => LET predicate == ScanPredicate(last')
              target == ScanTarget(last', item_for_memcmp_predicate)
              scan == ScanStates(v, predicate, target, 0, 0)
              looped == RemoveAllLoop(v, predicate, target, 0, 0)
          IN  /\ Len(scan) = v.count
              /\ ~looped.failed
              /\ \A n \in 1..Len(scan) :
                    LET s == scan[n] IN
                    /\ ~s.refused
                    /\ s.i = (n - 1) * v.element_size
                    /\ s.e <= s.i
                    /\ s.i % v.element_size = 0
                    /\ s.e % v.element_size = 0
                    /\ s.i < s.v.count_bytes
                    /\ s.v.count_bytes = v.count_bytes
                    /\ SubSeq(s.v.data, 1, to_external_index(s.v, s.e))
                         = KeptSoFar(v, predicate, target, n - 1)
                    /\ \A j \in 1..(n - 1) :
                          j > to_external_index(s.v, s.e) =>
                             CallPredicate(predicate, s.v,
                                           to_internal_index(s.v, j - 1),
                                           s.glob)
              /\ Elements(v') = KeptSoFar(v, predicate, target, v.count)
              /\ last'.ret = v.count - v'.count]_vars

\* a scan of three elements dropped the first and swapped each of the
\* other two down one place
C28_Witness ==
    /\ v # NULL
    /\ last.op = "remove_all_if"
    /\ ~last.vnull
    /\ last.pre_count = 3
    /\ last.ret = 1
    /\ v.count = 2
    /\ v.data[1] # v.data[2]
    /\ item_for_memcmp_predicate = Inner(2 * v.element_size)

\* the values an earlier call can have left in item_for_memcmp_predicate:
\* none, a caller's object, or an element of the buffer
StaleTargets(V) ==
    {NULL} \cup {Ext(x) : x \in Values}
    \cup (IF V = NULL THEN {}
          ELSE {Inner(to_internal_index(V, k)) :
                   k \in {j \in 0..MaxCount : j < V.capacity}})

\* C29: the results of where, has, insert and remove_all depend only on
\* their arguments and the container's contents, never on the value an
\* earlier call left in item_for_memcmp_predicate: with any other value
\* there the call gives the same result and the same final contents.
C29_TargetIndependent ==
    [][last'.op \in {"where", "has", "insert", "remove_all"} =>
        LET l == last'
            h == IF l.vnull THEN NULL ELSE v
        IN  \A g \in StaleTargets(v) :
               /\ l.op = "where" =>
                     Vec_where(h, l.item, l.item_size, g).ret = l.ret
               /\ l.op = "has" =>
                     Vec_has(h, l.item, l.item_size, g).ret = l.ret
               /\ l.op = "insert" =>
                     LET r == Vec_insert(h, l.index, l.item, l.item_size,
                                         l.state, g)
                     IN  r.ret = l.ret /\ After(h, r.v) = v'
               /\ l.op = "remove_all" =>
                     LET r == Vec_remove_all(h, l.item, l.item_size, g)
                     IN  r.ret = l.ret /\ After(h, r.v) = v']_vars

\* where() found the caller's object past the head of the vector while the
\* target still pointed at an element with another value, left there by
\* the swap of an earlier bulk removal
C29_Witness ==
    /\ v # NULL
    /\ last.op = "where"
    /\ ~last.vnull
    /\ last.item.kind = "ext"
    /\ last.state.kind = "inner"
    /\ last.state.off > 0
    /\ Slot(v, last.state.off) <= v.capacity
    /\ ReadItem(v, last.state) # last.item.val
    /\ last.ret > 0
    /\ last.ret < v.count

====
